---- MODULE Spec2Model ----
(***************************************************************************)
(* A model of csim.c, a trace-driven set-associative cache simulator with  *)
(* LRU replacement.  The state is the simulator's globals (geometry, cache *)
(* array, LRU counter, statistics); there is one action per kind of trace  *)
(* record, each being one iteration of replay_trace's loop together with   *)
(* the access_data calls it makes.  replay_trace's local addr is written   *)
(* by sscanf before every use, so it is the action's input, not state.     *)
(***************************************************************************)
EXTENDS Integers, Sequences, FiniteSets, TLC

(***************************************************************************)
(* Bounds of the model.                                                    *)
(***************************************************************************)
\* largest -s argument tried
MaxS == 1
\* largest -b argument tried
MaxB == 1
\* largest -E argument tried
MaxE == 2
\* addresses in trace records range over 0..MaxAddr
MaxAddr == 8
\* a run makes at most this many access_data calls
MaxAccesses == 4

(***************************************************************************)
(* Program constants.                                                      *)
(***************************************************************************)
\* <limits.h> INT_MAX, the initial minCount of the victim scan
INT_MAX == 2147483647
\* width of mem_addr_t as used by the tag mask "64-b-s"
AddrBits == 64
\* <limits.h> INT_MIN
INT_MIN == 0 - INT_MAX - 1

VARIABLES
    s,          \* number of set bits (global, from -s)
    b,          \* number of block bits (global, from -b)
    E,          \* lines per set (global, from -E)
    cache,      \* cache[set][line] = [valid, tag, count]
    counter,    \* the LRU clock
    hit_cnt,
    miss_cnt,
    evict_cnt,
    last,       \* history: kind of the last record and the outcomes of its accesses
    hist,       \* history: the accesses made so far, as [set, tag, outcome]
    nLoad,      \* history: number of L records replayed
    nStore,     \* history: number of S records replayed
    nModify,    \* history: number of M records replayed
    ref,        \* the reference LRU cache run alongside (not part of the program)
    pc,         \* where the process is: "main", "usage", "replay", "aborted", "decode"
    dec         \* the last address decoded bit by bit, with its set and tag

vars == <<s, b, E, cache, counter, hit_cnt, miss_cnt, evict_cnt,
          last, hist, nLoad, nStore, nModify, ref, pc, dec>>

Addrs == 0..MaxAddr

(***************************************************************************)
(* Arithmetic on mem_addr_t.                                               *)
(***************************************************************************)
\* x >> n
ShiftRight(x, n) == x \div (2 ^ n)

\* x & (((mem_addr_t)1 << w) - 1): the low w bits of x, bit by bit
RECURSIVE LowBits(_, _)
LowBits(x, w) ==
    IF w = 0 \/ x = 0 THEN 0
    ELSE (x % 2) + 2 * LowBits(x \div 2, w - 1)

\* S = pow(2, s)
S == 2 ^ s

\* set = (addr >> b) & sBitMask
SetOf(a) == LowBits(ShiftRight(a, b), s)

\* tag = (addr >> (b+s)) & tBitMask, tBitMask of width 64-b-s
TagOf(a) == LowBits(ShiftRight(a, b + s), AddrBits - b - s)

(***************************************************************************)
(* The same decoding on all 64 bits.  TLC's integers are 32 bits wide, so  *)
(* here a mem_addr_t is the set of the positions of its 1 bits.            *)
(***************************************************************************)
\* x >> n
BShr(A, n) == {i - n : i \in {j \in A : j >= n}}

\* x << n, the bits shifted past bit 63 are lost (used to recombine)
BShl(A, n) == {i + n : i \in {j \in A : j + n < AddrBits}}

\* x & y
BAnd(A, B) == A \cap B

\* ((mem_addr_t)1 << w) - 1, for 0 <= w < 64
BMask(w) == 0..(w - 1)

\* set = (addr >> b) & sBitMask
DecodeSet(A) == BAnd(BShr(A, b), BMask(s))

\* mutant of DecodeTag: the tag mask is one bit too narrow
DecodeTag_NarrowMask(A) == BAnd(BShr(A, b + s), BMask(AddrBits - b - s - 1))

\* tag = (addr >> (b+s)) & tBitMask
DecodeTag(A) == BAnd(BShr(A, b + s), BMask(AddrBits - b - s))

(***************************************************************************)
(* init_cache: every line of every set is invalid and zeroed.              *)
(***************************************************************************)
\* mutant of InitLine: the valid flag is not cleared
InitLine_Valid == [valid |-> "1", tag |-> 0, count |-> 0]

InitLine == [valid |-> "0", tag |-> 0, count |-> 0]

InitCache(sBits, lines) ==
    [set \in 0..(2 ^ sBits - 1) |-> [line \in 0..(lines - 1) |-> InitLine]]

(***************************************************************************)
(* access_data.  A simulator state st is a record of the globals           *)
(* access_data reads and writes.                                           *)
(***************************************************************************)
\* ub is what the build does when an int increment overflows (undefined
\* behaviour): "wrap" or "trap"; trapped says that the process was killed by it.
State == [cache |-> cache, counter |-> counter, hit_cnt |-> hit_cnt,
          miss_cnt |-> miss_cnt, evict_cnt |-> evict_cnt,
          ub |-> "wrap", trapped |-> FALSE]

\* x++ on an int, in a build where the overflow wraps
Inc(x) == IF x = INT_MAX THEN INT_MIN ELSE x + 1

\* one of the increments of xs overflows in a build where that traps
Traps(st, xs) == st.ub = "trap" /\ INT_MAX \in xs

\* mutant of HitScan: the valid flag is not tested
RECURSIVE HitScan_TagOnly(_, _, _)
HitScan_TagOnly(lines, tag, line) ==
    IF line >= E THEN -1
    ELSE IF lines[line].tag = tag THEN line
    ELSE HitScan_TagOnly(lines, tag, line + 1)

\* mutant of HitScan: the loop stops one line early
RECURSIVE HitScan_ShortLoop(_, _, _)
HitScan_ShortLoop(lines, tag, line) ==
    IF line >= E - 1 THEN -1
    ELSE IF lines[line].tag = tag /\ lines[line].valid = "1" THEN line
    ELSE HitScan_ShortLoop(lines, tag, line + 1)

\* the first loop: the lowest line that is valid and holds the tag, or -1
RECURSIVE HitScan(_, _, _)
HitScan(lines, tag, line) ==
    IF line >= E THEN -1
    ELSE IF lines[line].tag = tag /\ lines[line].valid = "1" THEN line
    ELSE HitScan(lines, tag, line + 1)

\* mutant of MissScan: the break is missing, so the last invalid line is taken
RECURSIVE MissScanNoBreak(_, _, _, _, _)
MissScanNoBreak(lines, line, freeLine, evictLine, minCount) ==
    IF line >= E THEN [freeLine |-> freeLine, evictLine |-> evictLine]
    ELSE LET fl == IF lines[line].valid = "0" THEN line ELSE freeLine
         IN  IF lines[line].count < minCount
             THEN MissScanNoBreak(lines, line + 1, fl, line, lines[line].count)
             ELSE MissScanNoBreak(lines, line + 1, fl, evictLine, minCount)

MissScan_NoBreak(lines, line, evictLine, minCount) ==
    MissScanNoBreak(lines, line, -1, evictLine, minCount)

\* mutant of MissScan: the comparison is reversed, so the newest line is the victim
RECURSIVE MissScan_Newest(_, _, _, _)
MissScan_Newest(lines, line, evictLine, minCount) ==
    IF line >= E THEN [freeLine |-> -1, evictLine |-> evictLine]
    ELSE IF lines[line].valid = "0"
         THEN [freeLine |-> line, evictLine |-> evictLine]
    ELSE IF evictLine = -1 \/ lines[line].count > minCount
         THEN MissScan_Newest(lines, line + 1, line, lines[line].count)
    ELSE MissScan_Newest(lines, line + 1, evictLine, minCount)

\* the second loop: stops at the first invalid line, else tracks the minimum count
RECURSIVE MissScan(_, _, _, _)
MissScan(lines, line, evictLine, minCount) ==
    IF line >= E THEN [freeLine |-> -1, evictLine |-> evictLine]
    ELSE IF lines[line].valid = "0"
         THEN [freeLine |-> line, evictLine |-> evictLine]
    ELSE IF lines[line].count < minCount
         THEN MissScan(lines, line + 1, line, lines[line].count)
    ELSE MissScan(lines, line + 1, evictLine, minCount)

\* mutant of FillLine: the valid flag is not set
FillLine_NoValid(st, set, line, tag) ==
    [st.cache EXCEPT ![set][line] =
        [valid |-> st.cache[set][line].valid, tag |-> tag, count |-> st.counter]]

\* mutant of FillLine: the tag is not stored
FillLine_NoTag(st, set, line, tag) ==
    [st.cache EXCEPT ![set][line] =
        [valid |-> "1", tag |-> st.cache[set][line].tag, count |-> st.counter]]

\* mutant of FillLine: the set index is dropped, the line is written in every set
FillLine_AllSets(st, set, line, tag) ==
    [x \in DOMAIN st.cache |->
        [st.cache[x] EXCEPT ![line] =
            [valid |-> "1", tag |-> tag, count |-> st.counter]]]

\* the three stores that fill a line
FillLine(st, set, line, tag) ==
    [st.cache EXCEPT ![set][line] =
        [valid |-> "1", tag |-> tag, count |-> st.counter]]

\* mutant of OnHit: the hit line's count is not refreshed
OnHit_NoRefresh(st, set, line) ==
    [st EXCEPT !.hit_cnt = st.hit_cnt + 1,
               !.counter = st.counter + 1]

\* the hit branch
OnHit(st, set, line) ==
    IF Traps(st, {st.hit_cnt, st.counter}) THEN [st EXCEPT !.trapped = TRUE]
    ELSE [st EXCEPT !.hit_cnt = Inc(st.hit_cnt),
                    !.cache = [st.cache EXCEPT ![set][line].count = st.counter],
                    !.counter = Inc(st.counter)]

\* mutant of OnMiss: evict_cnt is not incremented
OnMiss_NoEvictCount(st, set, tag) ==
    LET scan == MissScan(st.cache[set], 0, -1, INT_MAX)
        m    == [st EXCEPT !.miss_cnt = st.miss_cnt + 1]
    IN  IF scan.freeLine # -1
        THEN [m EXCEPT !.cache = FillLine(st, set, scan.freeLine, tag),
                       !.counter = st.counter + 1]
        ELSE IF scan.evictLine # -1
        THEN [m EXCEPT !.cache = FillLine(st, set, scan.evictLine, tag),
                       !.counter = st.counter + 1]
        ELSE m

\* the miss branch
OnMiss(st, set, tag) ==
    LET scan == MissScan(st.cache[set], 0, -1, INT_MAX)
        m    == [st EXCEPT !.miss_cnt = Inc(st.miss_cnt)]
    IN  IF Traps(st, {st.miss_cnt}) THEN [st EXCEPT !.trapped = TRUE]
        ELSE IF scan.freeLine # -1
        THEN IF Traps(st, {st.counter}) THEN [st EXCEPT !.trapped = TRUE]
             ELSE [m EXCEPT !.cache = FillLine(st, set, scan.freeLine, tag),
                            !.counter = Inc(st.counter)]
        ELSE IF scan.evictLine # -1
        THEN IF Traps(st, {st.evict_cnt, st.counter}) THEN [st EXCEPT !.trapped = TRUE]
             ELSE [m EXCEPT !.evict_cnt = Inc(st.evict_cnt),
                            !.cache = FillLine(st, set, scan.evictLine, tag),
                            !.counter = Inc(st.counter)]
        ELSE m

AccessData(st, a) ==
    LET set  == SetOf(a)
        tag  == TagOf(a)
        line == HitScan(st.cache[set], tag, 0)
    IN  IF line # -1 THEN OnHit(st, set, line) ELSE OnMiss(st, set, tag)

(***************************************************************************)
(* The reference LRU cache: per set, the resident tags, most recent first. *)
(***************************************************************************)
Without(seq, x) == SelectSeq(seq, LAMBDA y : y # x)

Member(seq, x) == \E i \in 1..Len(seq) : seq[i] = x

RefOutcome(r, set, tag) ==
    IF Member(r.lru[set], tag) THEN "hit"
    ELSE IF Len(r.lru[set]) >= E THEN "miss_evict"
    ELSE "miss"

RefAccess(r, a) ==
    LET set == SetOf(a)
        tag == TagOf(a)
        o   == RefOutcome(r, set, tag)
        old == r.lru[set]
        new == IF o = "hit" THEN <<tag>> \o Without(old, tag)
               ELSE IF o = "miss_evict" THEN <<tag>> \o SubSeq(old, 1, Len(old) - 1)
               ELSE <<tag>> \o old
    IN  [lru |-> [r.lru EXCEPT ![set] = new],
         hits |-> r.hits + (IF o = "hit" THEN 1 ELSE 0),
         misses |-> r.misses + (IF o = "hit" THEN 0 ELSE 1),
         evictions |-> r.evictions + (IF o = "miss_evict" THEN 1 ELSE 0),
         outcomes |-> Append(r.outcomes, o)]

(***************************************************************************)
(* What one access_data call did, read off the statistics it changed.      *)
(***************************************************************************)
Outcome(pre, post) ==
    LET dh == post.hit_cnt - pre.hit_cnt
        dm == post.miss_cnt - pre.miss_cnt
        de == post.evict_cnt - pre.evict_cnt
    IN  IF dh = 1 /\ dm = 0 /\ de = 0 THEN "hit"
        ELSE IF dh = 0 /\ dm = 1 /\ de = 0 THEN "miss"
        ELSE IF dh = 0 /\ dm = 1 /\ de = 1 THEN "miss_evict"
        ELSE "other"

HistEntry(pre, post, a) ==
    [set |-> SetOf(a), tag |-> TagOf(a), outcome |-> Outcome(pre, post)]

\* nothing decoded yet
NoDecode == [addr |-> {}, set |-> {}, tag |-> {}]

(***************************************************************************)
(* The initial state: main has parsed and accepted the arguments (s, E and *)
(* b all nonzero) and init_cache has run.                                  *)
(***************************************************************************)
Init ==
    /\ s \in 1..MaxS
    /\ b \in 1..MaxB
    /\ E \in 1..MaxE
    /\ cache = InitCache(s, E)
    /\ counter = 1
    /\ hit_cnt = 0
    /\ miss_cnt = 0
    /\ evict_cnt = 0
    /\ last = [kind |-> "none", outcomes |-> <<>>]
    /\ hist = <<>>
    /\ nLoad = 0
    /\ nStore = 0
    /\ nModify = 0
    /\ ref = [lru |-> [set \in 0..(2 ^ s - 1) |-> <<>>],
              hits |-> 0, misses |-> 0, evictions |-> 0, outcomes |-> <<>>]
    /\ pc = "replay"
    /\ dec = NoDecode

(***************************************************************************)
(* replay_trace: one action per kind of record.                            *)
(***************************************************************************)
Accesses == hit_cnt + miss_cnt

\* the access_data calls made since the run's history began
Replayed == Len(hist)

\* what the build may do at an overflowing increment; the choice matters
\* only to a step that can reach one
OverflowOutcomes ==
    IF counter >= INT_MAX - 1 THEN {"wrap", "trap"} ELSE {"wrap"}

\* the process was killed in the middle of a record
Abort ==
    /\ pc' = "aborted"
    /\ UNCHANGED <<cache, counter, hit_cnt, miss_cnt, evict_cnt, last, hist, ref>>

\* a record with one access_data call
ReplayOne(kind, a) ==
    \E u \in OverflowOutcomes :
        LET st0 == [State EXCEPT !.ub = u]
            st1 == AccessData(st0, a)
            r1  == RefAccess(ref, a)
        IN  /\ pc = "replay"
            /\ Replayed + 1 <= MaxAccesses
            /\ IF st1.trapped THEN Abort
               ELSE /\ cache' = st1.cache
                    /\ counter' = st1.counter
                    /\ hit_cnt' = st1.hit_cnt
                    /\ miss_cnt' = st1.miss_cnt
                    /\ evict_cnt' = st1.evict_cnt
                    /\ last' = [kind |-> kind, outcomes |-> <<Outcome(st0, st1)>>]
                    /\ hist' = Append(hist, HistEntry(st0, st1, a))
                    /\ ref' = r1
                    /\ pc' = pc
            /\ UNCHANGED <<s, b, E, dec>>

ReplayLoad ==
    \E a \in Addrs :
        /\ ReplayOne("L", a)
        /\ nLoad' = nLoad + 1
        /\ UNCHANGED <<nStore, nModify>>

ReplayStore ==
    \E a \in Addrs :
        /\ ReplayOne("S", a)
        /\ nStore' = nStore + 1
        /\ UNCHANGED <<nLoad, nModify>>

\* mutant of ReplayModify: an M record is replayed as a single access
ReplayModify_Once ==
    \E a \in Addrs :
        /\ ReplayOne("M", a)
        /\ nModify' = nModify + 1
        /\ UNCHANGED <<nLoad, nStore>>

\* an M record: access_data(addr); access_data(addr);
ReplayModify ==
    \E a \in Addrs : \E u \in OverflowOutcomes :
        LET st0 == [State EXCEPT !.ub = u]
            st1 == AccessData(st0, a)
            st2 == IF st1.trapped THEN st1 ELSE AccessData(st1, a)
            r1  == RefAccess(ref, a)
            r2  == RefAccess(r1, a)
        IN  /\ pc = "replay"
            /\ Replayed + 2 <= MaxAccesses
            /\ IF st2.trapped THEN Abort
               ELSE /\ cache' = st2.cache
                    /\ counter' = st2.counter
                    /\ hit_cnt' = st2.hit_cnt
                    /\ miss_cnt' = st2.miss_cnt
                    /\ evict_cnt' = st2.evict_cnt
                    /\ last' = [kind |-> "M",
                                outcomes |-> <<Outcome(st0, st1), Outcome(st1, st2)>>]
                    /\ hist' = hist \o <<HistEntry(st0, st1, a), HistEntry(st1, st2, a)>>
                    /\ ref' = r2
                    /\ pc' = pc
            /\ nModify' = nModify + 1
            /\ UNCHANGED <<s, b, E, nLoad, nStore, dec>>

\* mutant of ReplayOther: the record kind is not tested, an I record is an access
ReplayOther_Accesses ==
    \E a \in Addrs :
        LET st1 == AccessData(State, a)
        IN  /\ pc = "replay"
            /\ Replayed + 1 <= MaxAccesses
            /\ cache' = st1.cache
            /\ counter' = st1.counter
            /\ hit_cnt' = st1.hit_cnt
            /\ miss_cnt' = st1.miss_cnt
            /\ evict_cnt' = st1.evict_cnt
            /\ last' = [kind |-> "I", outcomes |-> <<>>]
            /\ UNCHANGED <<s, b, E, hist, nLoad, nStore, nModify, ref, pc, dec>>

\* any other line (an I record): buf[1] is none of S, L, M; nothing is parsed
ReplayOther ==
    /\ pc = "replay"
    /\ last' = [kind |-> "I", outcomes |-> <<>>]
    /\ UNCHANGED <<s, b, E, cache, counter, hit_cnt, miss_cnt, evict_cnt,
                   hist, nLoad, nStore, nModify, ref, pc, dec>>

(***************************************************************************)
(* The whole of main: the arguments as getopt and atoi left them, the      *)
(* check that all required arguments were specified, then init_cache and   *)
(* replay_trace.  A trace file is always named.                            *)
(***************************************************************************)
InitMain ==
    /\ s \in 0..MaxS
    /\ b \in 0..MaxB
    /\ E \in 0..MaxE
    /\ cache = <<>>
    /\ counter = 1
    /\ hit_cnt = 0
    /\ miss_cnt = 0
    /\ evict_cnt = 0
    /\ last = [kind |-> "none", outcomes |-> <<>>]
    /\ hist = <<>>
    /\ nLoad = 0
    /\ nStore = 0
    /\ nModify = 0
    /\ ref = [lru |-> <<>>,
              hits |-> 0, misses |-> 0, evictions |-> 0, outcomes |-> <<>>]
    /\ pc = "main"
    /\ dec = NoDecode

\* Main with s = 0 let through: what main would do if -s 0 counted as specified
Main_AllowsZeroSetBits ==
    /\ pc = "main"
    /\ IF E = 0 \/ b = 0
       THEN /\ pc' = "usage"
            /\ UNCHANGED <<cache, ref>>
       ELSE /\ pc' = "replay"
            /\ cache' = InitCache(s, E)
            /\ ref' = [ref EXCEPT !.lru = [set \in 0..(2 ^ s - 1) |-> <<>>]]
    /\ UNCHANGED <<s, b, E, counter, hit_cnt, miss_cnt, evict_cnt,
                   last, hist, nLoad, nStore, nModify, dec>>

\* if (s == 0 || E == 0 || b == 0 || trace_file == NULL) { print_usage; exit(1) }
\* else init_cache()
Main ==
    /\ pc = "main"
    /\ IF s = 0 \/ E = 0 \/ b = 0
       THEN /\ pc' = "usage"
            /\ UNCHANGED <<cache, ref>>
       ELSE /\ pc' = "replay"
            /\ cache' = InitCache(s, E)
            /\ ref' = [ref EXCEPT !.lru = [set \in 0..(2 ^ s - 1) |-> <<>>]]
    /\ UNCHANGED <<s, b, E, counter, hit_cnt, miss_cnt, evict_cnt,
                   last, hist, nLoad, nStore, nModify, dec>>

(***************************************************************************)
(* A long run.  With E = 1, after n M records that alternate between the   *)
(* blocks with tags 0 and 1 of set 0, each record has missed (evicting,    *)
(* but for the first) and hit: hit_cnt = miss_cnt = n, evict_cnt = n - 1,  *)
(* counter = 2n + 1, and line 0 of set 0 holds the tag of record n with    *)
(* count 2n.  InitLate is that state for the n that leaves the clock       *)
(* 2 * LateRecords short of INT_MAX; hist and ref.outcomes hold the        *)
(* accesses made from there on.                                            *)
(***************************************************************************)
\* M records the clock is short of INT_MAX when the long run is picked up
LateRecords == 1

LateN == (INT_MAX - 1) \div 2 - LateRecords

InitLate ==
    /\ s \in 1..MaxS
    /\ b \in 1..MaxB
    /\ E = 1
    /\ cache = [InitCache(s, E) EXCEPT ![0][0] =
                   [valid |-> "1", tag |-> (LateN - 1) % 2, count |-> 2 * LateN]]
    /\ counter = 2 * LateN + 1
    /\ hit_cnt = LateN
    /\ miss_cnt = LateN
    /\ evict_cnt = LateN - 1
    /\ last = [kind |-> "M", outcomes |-> <<"miss_evict", "hit">>]
    /\ hist = <<>>
    /\ nLoad = 0
    /\ nStore = 0
    /\ nModify = LateN
    /\ ref = [lru |-> [set \in 0..(2 ^ s - 1) |->
                          IF set = 0 THEN <<(LateN - 1) % 2>> ELSE <<>>],
              hits |-> LateN, misses |-> LateN, evictions |-> LateN - 1,
              outcomes |-> <<>>]
    /\ pc = "replay"
    /\ dec = NoDecode

(***************************************************************************)
(* The decoding alone: the first four statements of access_data applied to *)
(* addresses whose 1 bits lie at the borders of the three fields.          *)
(***************************************************************************)
\* largest -s argument tried when decoding
DecMaxS == 4

ProbeBits == {0, b - 1, b, b + s - 1, b + s, AddrBits - 1}

ProbeAddrs == (SUBSET ProbeBits) \cup {0..(AddrBits - 1)}

InitDecode ==
    /\ s \in 1..DecMaxS
    /\ b \in 1..(AddrBits - 1 - s)
    /\ E = 1
    /\ cache = InitCache(s, E)
    /\ counter = 1
    /\ hit_cnt = 0
    /\ miss_cnt = 0
    /\ evict_cnt = 0
    /\ last = [kind |-> "none", outcomes |-> <<>>]
    /\ hist = <<>>
    /\ nLoad = 0
    /\ nStore = 0
    /\ nModify = 0
    /\ ref = [lru |-> [set \in 0..(2 ^ s - 1) |-> <<>>],
              hits |-> 0, misses |-> 0, evictions |-> 0, outcomes |-> <<>>]
    /\ pc = "decode"
    /\ dec = NoDecode

Decode ==
    \E A \in ProbeAddrs :
        /\ pc = "decode"
        /\ dec' = [addr |-> A, set |-> DecodeSet(A), tag |-> DecodeTag(A)]
        /\ UNCHANGED <<s, b, E, cache, counter, hit_cnt, miss_cnt, evict_cnt,
                       last, hist, nLoad, nStore, nModify, ref, pc>>

NextDecode == Decode

DecodeSpec == InitDecode /\ [][NextDecode]_vars

Next ==
    \/ ReplayLoad
    \/ ReplayStore
    \/ ReplayModify
    \/ ReplayOther

Spec == Init /\ [][Next]_vars

NextMain ==
    \/ Main
    \/ Next

SpecMain == InitMain /\ [][NextMain]_vars

SpecLate == InitLate /\ [][Next]_vars

(***************************************************************************)
(* Vocabulary of the properties.                                           *)
(***************************************************************************)
Lines == 0..(E - 1)

Sets == 0..(S - 1)

\* the tag is resident in the set: some valid line holds it
Present(c, set, tag) ==
    \E l \in Lines : c[set][l].valid = "1" /\ c[set][l].tag = tag

\* the set has no invalid line
Full(c, set) == \A l \in Lines : c[set][l].valid = "1"

\* the tags resident in a set
Resident(c, set) == {c[set][l].tag : l \in {k \in Lines : c[set][k].valid = "1"}}

Elems(seq) == {seq[i] : i \in 1..Len(seq)}

Lowest(ls) == CHOOSE l \in ls : \A k \in ls : l <= k

\* the step made exactly one access_data call (an L or an S record)
OneAccess == Len(hist') = Len(hist) + 1

\* the step made at least one access_data call
SomeAccess == Len(hist') > Len(hist)

\* the set and tag of the first access the step made
StepSet == hist'[Len(hist) + 1].set

StepTag == hist'[Len(hist) + 1].tag

\* the lines of the accessed set whose content the step changed
Changed(set) == {l \in Lines : cache'[set][l] # cache[set][l]}

C2_HitStep ==
    OneAccess =>
        LET set == StepSet
            tag == StepTag
            hl  == Lowest({l \in Lines : cache[set][l].valid = "1"
                                          /\ cache[set][l].tag = tag})
        IN  /\ (hit_cnt' # hit_cnt) <=> Present(cache, set, tag)
            /\ Present(cache, set, tag) =>
                  /\ hit_cnt' = hit_cnt + 1
                  /\ miss_cnt' = miss_cnt
                  /\ evict_cnt' = evict_cnt
                  /\ cache'[set][hl].count = counter
                  /\ counter' = counter + 1
                  /\ \A st \in Sets : \A l \in Lines :
                        /\ cache'[st][l].valid = cache[st][l].valid
                        /\ cache'[st][l].tag = cache[st][l].tag

C2_Hit == [][C2_HitStep]_vars

\* an L or S record has just hit a line other than line 0
C2_Witness ==
    /\ last.kind \in {"L", "S"}
    /\ last.outcomes = <<"hit">>
    /\ cache[hist[Len(hist)].set][0].tag # hist[Len(hist)].tag
    /\ hit_cnt >= 2

(***************************************************************************)
(* C3: a miss in a set that has an invalid line fills the lowest invalid   *)
(* line (valid, the target tag, the current clock), adds one to miss_cnt,  *)
(* leaves evict_cnt alone and leaves every other line of the set as it was.*)
(***************************************************************************)
C3_FillStep ==
    (OneAccess /\ ~Present(cache, StepSet, StepTag) /\ ~Full(cache, StepSet)) =>
        LET set == StepSet
            fl  == Lowest({l \in Lines : cache[set][l].valid = "0"})
        IN  /\ cache'[set][fl] = [valid |-> "1", tag |-> StepTag, count |-> counter]
            /\ miss_cnt' = miss_cnt + 1
            /\ evict_cnt' = evict_cnt
            /\ hit_cnt' = hit_cnt
            /\ \A l \in Lines \ {fl} : cache'[set][l] = cache[set][l]

C3_Fill == [][C3_FillStep]_vars

\* a miss has just filled line 1 of a set whose line 0 was already valid
C3_Witness ==
    /\ E = 2
    /\ last.outcomes = <<"miss">>
    /\ LET e == hist[Len(hist)]
       IN  /\ cache[e.set][1] = [valid |-> "1", tag |-> e.tag, count |-> counter - 1]
           /\ cache[e.set][0].valid = "1"

(***************************************************************************)
(* C4: a miss in a full set overwrites the line whose count is strictly    *)
(* the smallest of the set, adds one to evict_cnt and one to miss_cnt, and *)
(* leaves the target tag resident and the victim's old tag not resident;   *)
(* evict_cnt does not change on a hit or on a miss in a set that has an    *)
(* invalid line.                                                           *)
(***************************************************************************)
C4_EvictStep ==
    OneAccess =>
        LET set == StepSet
            tag == StepTag
        IN  IF ~Present(cache, set, tag) /\ Full(cache, set)
            THEN /\ evict_cnt' = evict_cnt + 1
                 /\ miss_cnt' = miss_cnt + 1
                 /\ \E v \in Lines :
                       /\ Changed(set) = {v}
                       /\ \A l \in Lines \ {v} :
                             cache[set][v].count < cache[set][l].count
                       /\ cache'[set][v] =
                             [valid |-> "1", tag |-> tag, count |-> counter]
                       /\ ~Present(cache', set, cache[set][v].tag)
                 /\ Present(cache', set, tag)
            ELSE evict_cnt' = evict_cnt

C5_ModifyStep ==
    (last'.kind = "M" /\ vars' # vars) =>
        /\ Len(hist') = Len(hist) + 2
        /\ Len(last'.outcomes) = 2
        /\ LET e1 == hist'[Len(hist) + 1]
               e2 == hist'[Len(hist) + 2]
           IN  /\ e1.set = e2.set /\ e1.tag = e2.tag
               /\ last'.outcomes = <<e1.outcome, e2.outcome>>
               /\ e2.outcome = "hit"
               /\ IF Present(cache, e1.set, e1.tag)
                  THEN /\ e1.outcome = "hit"
                       /\ hit_cnt' = hit_cnt + 2
                       /\ miss_cnt' = miss_cnt
                       /\ evict_cnt' = evict_cnt
                  ELSE /\ e1.outcome =
                            (IF Full(cache, e1.set) THEN "miss_evict" ELSE "miss")
                       /\ hit_cnt' = hit_cnt + 1
                       /\ miss_cnt' = miss_cnt + 1
                       /\ evict_cnt' =
                            evict_cnt + (IF Full(cache, e1.set) THEN 1 ELSE 0)

C6_Counts ==
    /\ hit_cnt + miss_cnt = nLoad + nStore + 2 * nModify
    /\ evict_cnt <= miss_cnt

\* a trace with records of all three kinds, a hit and an eviction
C6_Witness ==
    /\ nLoad >= 1
    /\ nStore >= 1
    /\ nModify >= 1
    /\ evict_cnt >= 1
    /\ hit_cnt >= 1

(***************************************************************************)
(* C7: a record that is not an L, S or M record makes no access: every     *)
(* line of every set, the clock and the three counters are unchanged.      *)
(***************************************************************************)
C7_OtherStep ==
    last'.kind = "I" =>
        /\ cache' = cache
        /\ counter' = counter
        /\ hit_cnt' = hit_cnt
        /\ miss_cnt' = miss_cnt
        /\ evict_cnt' = evict_cnt

C7_OtherIgnored == [][C7_OtherStep]_vars

\* an I record replayed on a cache that already holds lines
C7_Witness ==
    /\ last.kind = "I"
    /\ miss_cnt >= 2
    /\ hit_cnt >= 1

(***************************************************************************)
(* C8: with E = 2 and an empty cache, the accesses X, Y, X, Z to one set   *)
(* (X, Y, Z distinct tags) end with Y evicted and X and Z resident; and at *)
(* every eviction the victim is the resident tag whose latest access, fill *)
(* or hit, is the oldest of the set's resident tags.                       *)
(***************************************************************************)
\* the index in h of the latest access to (set, tag), 0 when there is none
LastUse(h, set, tag) ==
    LET is == {i \in 1..Len(h) : h[i].set = set /\ h[i].tag = tag}
    IN  IF is = {} THEN 0 ELSE CHOOSE i \in is : \A j \in is : j <= i

C8_Scenario ==
    (/\ E = 2
     /\ Len(hist) = 4
     /\ \A i \in 2..4 : hist[i].set = hist[1].set
     /\ hist[3].tag = hist[1].tag
     /\ hist[2].tag # hist[1].tag
     /\ hist[4].tag \notin {hist[1].tag, hist[2].tag}) =>
        /\ [i \in 1..4 |-> hist[i].outcome] = <<"miss", "miss", "hit", "miss_evict">>
        /\ Resident(cache, hist[1].set) = {hist[1].tag, hist[4].tag}

C8_VictimStep ==
    (evict_cnt' # evict_cnt) =>
        LET set == StepSet
        IN  \E v \in Lines :
               /\ Changed(set) = {v}
               /\ cache[set][v].valid = "1"
               /\ cache'[set][v].tag = StepTag
               /\ LastUse(hist, set, cache[set][v].tag) >= 1
               /\ \A t \in Resident(cache, set) \ {cache[set][v].tag} :
                     LastUse(hist, set, cache[set][v].tag) < LastUse(hist, set, t)

SetHist(set) == SelectSeq(hist, LAMBDA e : e.set = set)

C9_IsABA(h) ==
    /\ Len(h) >= 3
    /\ h[3].tag = h[1].tag
    /\ h[2].tag # h[1].tag

C9_IsConcrete ==
    /\ s = 1 /\ E = 1 /\ b = 1
    /\ nLoad = 3 /\ nStore = 0 /\ nModify = 0
    /\ Len(hist) = 3
    /\ \A i \in 1..3 : hist[i].set = 0
    /\ hist[1].tag = TagOf(0)
    /\ hist[2].tag = TagOf(8)
    /\ hist[3].tag = TagOf(0)

C9_Thrash ==
    /\ \A set \in Sets :
          (E = 1 /\ C9_IsABA(SetHist(set))) =>
              [i \in 1..3 |-> SetHist(set)[i].outcome] =
                  <<"miss", "miss_evict", "miss_evict">>
    /\ (s = 1 /\ E = 1 /\ b = 1) =>
          /\ SetOf(0) = 0
          /\ SetOf(8) = 0
          /\ TagOf(0) # TagOf(8)
    /\ C9_IsConcrete => (hit_cnt = 0 /\ miss_cnt = 3 /\ evict_cnt = 2)

\* the trace L 0, L 8, L 0 has just been replayed with s = 1, E = 1, b = 1
C9_Witness ==
    /\ C9_IsConcrete
    /\ C9_IsABA(SetHist(0))
    /\ last.kind = "L"

C12_FrameStep ==
    SomeAccess => \A set \in Sets \ {StepSet} : cache'[set] = cache[set]

C12_SetsIndependent == [][C12_FrameStep]_vars

\* an access has just evicted in one set while another set holds a line
C12_Witness ==
    /\ Len(hist) >= 1
    /\ hist[Len(hist)].outcome = "miss_evict"
    /\ \E set \in Sets \ {hist[Len(hist)].set} : Resident(cache, set) # {}

(***************************************************************************)
(* C16: every line starts invalid with tag 0 and count 0; a line becomes   *)
(* valid only as the line a miss fills; a valid line stays valid, so the   *)
(* number of valid lines of each set never decreases.                      *)
(***************************************************************************)
ValidLines(c, set) == {l \in Lines : c[set][l].valid = "1"}

C16_Start ==
    \A set \in Sets : \A l \in Lines :
        cache[set][l] = [valid |-> "0", tag |-> 0, count |-> 0]

C16_ValidStep ==
    \A set \in Sets :
        /\ ValidLines(cache, set) \subseteq ValidLines(cache', set)
        /\ Cardinality(ValidLines(cache, set)) <= Cardinality(ValidLines(cache', set))
        /\ \A l \in ValidLines(cache', set) \ ValidLines(cache, set) :
              /\ SomeAccess
              /\ miss_cnt' = miss_cnt + 1
              /\ set = StepSet
              /\ cache'[set][l].tag = StepTag
              /\ ~Present(cache, set, StepTag)

\* a state with no access made yet is a state init_cache left
C16_ValidForever == [][(hist = <<>> => C16_Start) /\ C16_ValidStep]_vars

\* a line that was filled, then overwritten by an eviction, is still valid
C16_Witness ==
    /\ evict_cnt >= 1
    /\ hit_cnt >= 1
    /\ \E set \in Sets : Cardinality(ValidLines(cache, set)) = E

(***************************************************************************)
(* C18: no set holds two valid lines with the same tag.                    *)
(***************************************************************************)
C18_NoDuplicateTag ==
    \A set \in Sets : \A l1 \in Lines : \A l2 \in Lines :
        (/\ l1 # l2
         /\ cache[set][l1].valid = "1"
         /\ cache[set][l2].valid = "1") => cache[set][l1].tag # cache[set][l2].tag

\* a full two-line set whose second line was hit and whose first line was replaced
C18_Witness ==
    /\ E = 2
    /\ Len(hist) = 4
    /\ [i \in 1..4 |-> hist[i].outcome] = <<"miss", "miss", "hit", "miss_evict">>
    /\ hist[3].tag = hist[2].tag
    /\ \A i \in 2..4 : hist[i].set = hist[1].set

(***************************************************************************)
(* C20: the valid lines of each set are a prefix of the set, so the second *)
(* loop of access_data stops at the line whose index is the number of      *)
(* valid lines, and in a full set it runs over all E lines and finds a     *)
(* victim.                                                                 *)
(***************************************************************************)
C20_ValidPrefix ==
    \A set \in Sets :
        LET n    == Cardinality(ValidLines(cache, set))
            scan == MissScan(cache[set], 0, -1, INT_MAX)
        IN  /\ ValidLines(cache, set) = 0..(n - 1)
            /\ n < E => scan.freeLine = n
            /\ n = E => (scan.freeLine = -1 /\ scan.evictLine \in Lines)

\* a two-line set with one valid line beside a full set
C20_Witness ==
    /\ E = 2
    /\ \E set \in Sets : Cardinality(ValidLines(cache, set)) = 1
    /\ \E set \in Sets : Cardinality(ValidLines(cache, set)) = 2

(***************************************************************************)
(* C11: for every 64-bit address and every geometry with b + s < 64, the   *)
(* decoded set and tag recombine to the address,                           *)
(* (tag << (b+s)) | (set << b) | (addr & (2^b - 1)) = addr, and the tag    *)
(* mask of width 64-b-s drops no bit of addr >> (b+s).  Where the address  *)
(* and the shifts fit TLC's integers, the integer decoding the replay      *)
(* actions use gives the same set and tag.                                 *)
(***************************************************************************)
RECURSIVE ToInt(_)
ToInt(A) ==
    IF A = {} THEN 0
    ELSE LET i == CHOOSE j \in A : TRUE
         IN  2 ^ i + ToInt(A \ {i})

C11_Recombines ==
    pc = "decode" =>
        /\ b + s < AddrBits
        /\ BShl(dec.tag, b + s) \cup BShl(dec.set, b) \cup BAnd(dec.addr, BMask(b))
              = dec.addr
        /\ dec.tag = BShr(dec.addr, b + s)
        /\ dec.set \subseteq 0..(s - 1)
        /\ (b + s <= 30 /\ dec.addr \subseteq 0..30) =>
              /\ SetOf(ToInt(dec.addr)) = ToInt(dec.set)
              /\ TagOf(ToInt(dec.addr)) = ToInt(dec.tag)

\* b + s = 63 and the address with bits 0, b and 63 set: set 1 and the one-bit tag 1
C11_Witness ==
    /\ pc = "decode"
    /\ b + s = AddrBits - 1
    /\ dec.addr = {0, b, AddrBits - 1}
    /\ dec.tag = {0}
    /\ dec.set = {0}

(***************************************************************************)
(* C17: with s = 0 every address decodes to set 0 and to the tag           *)
(* addr >> b, and the simulator runs the trace as a single-set cache of E  *)
(* lines and produces its counts.                                          *)
(***************************************************************************)
C17_ZeroSetBitsRuns ==
    (s = 0 /\ b >= 1 /\ E >= 1) =>
        /\ \A a \in Addrs : SetOf(a) = 0 /\ TagOf(a) = ShiftRight(a, b)
        /\ pc # "usage"

(***************************************************************************)
(* C13: every access_data call takes exactly one of the three branches:    *)
(* it hits, or it misses and writes the tag into exactly one line (a free  *)
(* line or a victim) and advances the clock; the final return, "Will never *)
(* reach this", is not reached.                                            *)
(***************************************************************************)
C13_BranchStep ==
    OneAccess =>
        \/ /\ hit_cnt' # hit_cnt
           /\ miss_cnt' = miss_cnt
        \/ /\ hit_cnt' = hit_cnt
           /\ miss_cnt' # miss_cnt
           /\ counter' # counter
           /\ \E l \in Lines :
                 /\ Changed(StepSet) = {l}
                 /\ cache'[StepSet][l].valid = "1"
                 /\ cache'[StepSet][l].tag = StepTag

C13_NoFallThrough == [][C13_BranchStep]_vars

(***************************************************************************)
(* C14: the clock advances by exactly 1 on every access, hit or miss, and  *)
(* on nothing else; the count an access writes is the clock before the     *)
(* increment; so counter = 1 + hit_cnt + miss_cnt in every state and the   *)
(* line the latest access touched has count counter - 1.  (An int cannot   *)
(* hold INT_MAX + 1: the comparisons with INT_MAX come first.)             *)
(***************************************************************************)
C14_ClockStep ==
    LET k == Len(hist') - Len(hist)
    IN  /\ pc' = "replay" => (counter <= INT_MAX - k /\ counter' = counter + k)
        /\ k > 0 =>
              /\ hit_cnt' <= INT_MAX - 1 - miss_cnt'
              /\ counter' = 1 + hit_cnt' + miss_cnt'
              /\ \E l \in Lines :
                    /\ cache'[StepSet][l].valid = "1"
                    /\ cache'[StepSet][l].tag = StepTag
                    /\ cache'[StepSet][l].count = counter' - 1

C14_Clock == [][C14_ClockStep]_vars

(***************************************************************************)
(* C15: the valid lines of the whole cache carry pairwise distinct counts, *)
(* each in 1..counter-1, so a full set has exactly one line of minimum     *)
(* count.                                                                  *)
(***************************************************************************)
AllValid == {sl \in Sets \X Lines : cache[sl[1]][sl[2]].valid = "1"}

CountOf(sl) == cache[sl[1]][sl[2]].count

C15_UniqueRecency ==
    pc = "replay" =>
        /\ \A x \in AllValid : 1 <= CountOf(x) /\ CountOf(x) < counter
        /\ \A x \in AllValid : \A y \in AllValid \ {x} : CountOf(x) # CountOf(y)
        /\ \A set \in Sets :
              Full(cache, set) =>
                  \E v \in Lines : \A l \in Lines \ {v} :
                      cache[set][v].count < cache[set][l].count

(***************************************************************************)
(* C19: miss_cnt - evict_cnt is the number of valid lines of the cache, so *)
(* 0 <= miss_cnt - evict_cnt <= S * E; an access evicts only in a set      *)
(* whose E lines are all valid.                                            *)
(***************************************************************************)
C19_CountStep ==
    pc' = "replay" =>
        /\ miss_cnt' - evict_cnt' = Cardinality(AllValid')
        /\ 0 <= miss_cnt' - evict_cnt'
        /\ miss_cnt' - evict_cnt' <= S * E
        /\ evict_cnt' # evict_cnt =>
              Cardinality(ValidLines(cache, StepSet)) = E

C19_MissesMinusEvictions == [][C19_CountStep]_vars

====
